---------------------------- MODULE Spec2Model ----------------------------
(***************************************************************************)
(* The two splitters of the repository, Split_File.py and split_xpnfile.py, *)
(* as state machines: main() of each program, statement by statement, with *)
(* one step per loop iteration of the parsers and of the batch writer.      *)
(*                                                                         *)
(* A line is the tuple of its '|'-separated fields (what str.split("|")    *)
(* returns), so "JOB|J1|x" is <<"JOB", "J1", "x">> and the empty line is    *)
(* <<"">>.  Indices i, start are 0-based as in the source; At(lines, i)    *)
(* is lines[i].                                                            *)
(***************************************************************************)
EXTENDS Integers, Sequences, FiniteSets, TLC

VARIABLES
    doc,             \* the generated input, by parts (head, meta, items, tail)
    lines,           \* main: lines = read_lines(input_path)
    pc,              \* position in main and in the function it is running
    job_line,        \* parse_header_and_meta: job_line
    meta_lines,      \* parse_header_and_meta: meta_lines
    i,               \* the parsers' scan index (0-based)
    groups,          \* parse_groups_and_footer: groups
    item_lines,      \* parse_groups_and_footer: item_lines
    role_count,      \* parse_groups_and_footer: role_count
    plan_count,      \* parse_groups_and_footer: plan_count
    footer_line,     \* parse_groups_and_footer: footer_line
    job_code,        \* main: job_code
    items_per_file,  \* write_batches: items_per_file (0 until the call binds it)
    start,           \* write_batches: start of range(0, total, items_per_file)
    file_num,        \* write_batches: file_num
    csvoutput,       \* OUTPUT_DIR: file number |-> the lines of that file
    written,         \* the file numbers this run has opened for writing, in order
    err,             \* the exception that ended the run (NoErr while none)
    warnings,        \* the warnings printed by validate_footer
    pass,            \* 1: the generated input; 2: an output file fed back as input;
                     \* 3: the generated input again, with another footer count
    expect,          \* pass 2: the items of the chunk whose file is being read back
    before           \* pass 3: how the first run ended

vars == <<doc, lines, pc, job_line, meta_lines, i, groups, item_lines, role_count,
          plan_count, footer_line, job_code, items_per_file, start, file_num,
          csvoutput, written, err, warnings, pass, expect, before>>

(***************************************************************************)
(* Bounds of the model.                                                    *)
(***************************************************************************)
MaxItems == 3
MaxB == 3

(***************************************************************************)
(* Lines and their tags.                                                   *)
(***************************************************************************)
\* lines[pos], pos 0-based
At(ls, pos) == ls[pos + 1]

\* line.startswith(tag + "|"): the first field is the tag and a '|' follows it
StartsWith(line, tag) == Len(line) >= 2 /\ line[1] = tag

\* the positions (1-based) of ls whose line starts with tag|
Tagged(ls, tag) == { p \in 1..Len(ls) : StartsWith(ls[p], tag) }

\* the first fields that begin with "META_"
MetaTags == {"META_A", "META_B"}

\* line.startswith("META_")
IsMeta(line) == line[1] \in MetaTags

\* the largest item count a footer is asked to hold
MaxCount == MaxItems + 1

\* str(count) inside the f-string of the footer
Str(n) == ToString(n)

\* the count fields int() accepts: the decimal numerals, and a signed one
IsInt(s) == s = "+1" \/ \E k \in 0..MaxCount : Str(k) = s

\* int(count_str)
IntOf(s) == IF s = "+1" THEN 1 ELSE CHOOSE k \in 0..MaxCount : Str(k) = s

(***************************************************************************)
(* Exceptions.  Every error is a record of the same shape: its kind, the   *)
(* 1-based line number and the content it cites, and the two counts of the *)
(* incomplete-item message.                                                *)
(***************************************************************************)
Err(kind, line_no, content, roles, plans) ==
    [kind |-> kind, line_no |-> line_no, content |-> content,
     roles |-> roles, plans |-> plans]

NoErr == Err("none", 0, <<>>, 0, 0)

(***************************************************************************)
(* The inputs.  An input is generated by parts: a head (the JOB line, or   *)
(* none), metadata lines, items, and a tail (the footer and what follows). *)
(***************************************************************************)
Heads == { << <<"JOB", "J1", "x">> >>,      \* JOB|J1|x
           << <<"JOB", "J2">> >>,           \* JOB|J2
           << <<"JOB">> >>,                 \* JOB   (no '|')
           <<>> }                           \* no header line at all

Metas == { <<>>,
           << <<"META_A", "y">> >>,
           << <<"META_A", "y">>, <<"META_B", "z">> >> }

\* The job code a well-formed footer repeats
HeadJob(head) == IF head # <<>> /\ Len(head[1]) >= 2 THEN head[1][2] ELSE "J1"

\* Line j of item k, by kind
MkLine(kind, k, j) ==
    CASE kind = "C"   -> <<"CLNT_CORR", Str(k)>>
      [] kind = "R"   -> <<"CLNT_ROLE", Str(k), Str(j)>>
      [] kind = "P"   -> <<"PLAN", Str(k), Str(j)>>
      [] kind = "ROL" -> <<"CLNT_ROL", Str(k), Str(j)>>
      [] kind = "M"   -> <<"META_A", Str(k), Str(j)>>
      [] kind = "E"   -> <<"">>

MkItem(shape, k) == [j \in 1..Len(shape) |-> MkLine(shape[j], k, j)]

\* The shapes of a well-formed item: one CLNT_CORR, then roles and plans
GoodShapes == { <<"C", "R", "P">>, <<"C", "P", "R">>, <<"C", "R", "P", "P">> }

\* The shapes of a malformed one
BadShapes == { <<"C", "R">>, <<"C", "P">>, <<"C">>, <<"C", "P", "E">>,
               <<"C", "M", "R", "P">>, <<"C", "ROL", "P">>, <<"R", "P">> }

ShapeSeqs(S) == UNION { [1..n -> S] : n \in 0..MaxItems }

MkItems(shapes) == [k \in 1..Len(shapes) |-> MkItem(shapes[k], k)]

\* The tails for job code j and n items
Footer(j, c) == <<"FOOTER", j, c>>

GoodTails(j, n) == { << Footer(j, Str(n)) >> }

BadTails(j, n) ==
    { <<>>,                                            \* no footer
      << Footer(j, Str(n + 1)) >>,                     \* declared count off by one
      << Footer(j, "+1") >>,                           \* a signed count
      << Footer(j, "many") >>,                         \* count not an integer
      << Footer("J9", Str(n)) >>,                      \* another job's code
      << <<"FOOTER", j>> >>,                           \* two fields
      << <<"FOOTER", j, Str(n), "x">> >>,              \* four fields
      << <<"FOOTER">> >>,                              \* FOOTER  (no '|')
      << Footer(j, Str(n)), <<"">> >>,                 \* a blank line after it
      << Footer(j, Str(n)), <<"CLNT_CORR", "9">>, <<"CLNT_ROLE", "9", "2">>,
         <<"PLAN", "9", "3">> >>,                      \* an item after it
      << Footer(j, Str(n)), Footer(j, Str(n)) >> }     \* a second footer

MkDoc(head, meta, items, tail) ==
    [head |-> head, meta |-> meta, items |-> items, tail |-> tail]

\* Any items between a well-formed header and metadata; some of the tails
DocsByItems ==
    { MkDoc(<< <<"JOB", "J1", "x">> >>, << <<"META_A", "y">> >>, MkItems(s), t) :
        s \in ShapeSeqs(GoodShapes \cup BadShapes),
        t \in { <<>>, << Footer("J1", "2") >>, << Footer("J1", "2"), <<"">> >> } }

\* Well-formed items between any head, metadata and tail
DocsByFrame ==
    UNION { { MkDoc(h, m, MkItems(s), t) :
                t \in GoodTails(HeadJob(h), Len(s)) \cup BadTails(HeadJob(h), Len(s)) } :
            h \in Heads, m \in Metas, s \in ShapeSeqs(GoodShapes) }

EmptyInput == MkDoc(<<>>, <<>>, <<>>, <<>>)

Docs == DocsByItems \cup DocsByFrame \cup {EmptyInput}

RECURSIVE Flatten(_)
Flatten(ss) == IF ss = <<>> THEN <<>> ELSE Head(ss) \o Flatten(Tail(ss))

\* The flat line sequence of an input: what read_lines returns for its file
Serialize(d) == d.head \o d.meta \o Flatten(d.items) \o d.tail


\* How a run has ended so far: its exception, the files it wrote and their
\* content, under which ITEMS_PER_FILE
Outcome ==
    [pc |-> pc, err |-> err, written |-> written, csvoutput |-> csvoutput,
     items_per_file |-> items_per_file]

(***************************************************************************)
(* Initial state: main has read the input file and is about to parse it.   *)
(***************************************************************************)
Init ==
    /\ doc \in Docs
    /\ lines = Serialize(doc)
    /\ pc = "parse_header_and_meta"
    /\ job_line = <<>>
    /\ meta_lines = <<>>
    /\ i = 0
    /\ groups = <<>>
    /\ item_lines = <<>>
    /\ role_count = 0
    /\ plan_count = 0
    /\ footer_line = <<>>
    /\ job_code = ""
    /\ items_per_file = 0
    /\ start = 0
    /\ file_num = 0
    /\ csvoutput = <<>>
    /\ written = <<>>
    /\ err = NoErr
    /\ warnings = <<>>
    /\ pass = 1
    /\ expect = <<>>
    /\ before = Outcome

\* raise ValueError(...): the exception leaves main, the run is over
Raise(e) == pc' = "failed" /\ err' = e

io == <<csvoutput, written, warnings>>
run == <<doc, lines, pass, expect, before>>
writer == <<items_per_file, start, file_num>>
item == <<item_lines, role_count, plan_count>>

(***************************************************************************)
(* Split_File.py: parse_header_and_meta                                    *)
(***************************************************************************)
\* lines 53-58: the empty check, the JOB| check, meta_lines, i = [], 1
ParseHeader ==
    /\ pc = "parse_header_and_meta"
    /\ IF lines = <<>>
       THEN /\ Raise(Err("EmptyInput", 0, <<>>, 0, 0))
            /\ UNCHANGED <<job_line, meta_lines, i>>
       ELSE IF ~StartsWith(At(lines, 0), "JOB")
       THEN /\ Raise(Err("MalformedHeader", 1, <<>>, 0, 0))
            /\ job_line' = At(lines, 0)
            /\ UNCHANGED <<meta_lines, i>>
       ELSE /\ job_line' = At(lines, 0)
            /\ meta_lines' = <<>>
            /\ i' = 1
            /\ pc' = "meta_loop"
            /\ UNCHANGED err
    /\ UNCHANGED <<groups, item, footer_line, job_code, writer, io, run>>

\* the loop condition of line 59
MetaCond == i < Len(lines) /\ IsMeta(At(lines, i))

\* lines 59-60: one iteration of the metadata loop
MetaLoop ==
    /\ pc = "meta_loop"
    /\ MetaCond
    /\ meta_lines' = Append(meta_lines, At(lines, i))
    /\ i' = i + 1
    /\ UNCHANGED <<pc, err, job_line, groups, item, footer_line, job_code, writer,
                   io, run>>

\* metadata never found missing
MissingMetaNever(metas) == FALSE

\* line 61: if not meta_lines
MissingMeta(metas) == metas = <<>>

\* lines 61-63, then main line 160 and lines 72-73: the metadata loop is over;
\* parse_groups_and_footer starts at start_idx = i with groups = []
MetaDone ==
    /\ pc = "meta_loop"
    /\ ~MetaCond
    /\ IF MissingMeta(meta_lines)
       THEN /\ Raise(Err("MissingMetadata", 0, <<>>, 0, 0))
            /\ UNCHANGED groups
       ELSE /\ pc' = "item_loop"
            /\ groups' = <<>>
            /\ UNCHANGED err
    /\ UNCHANGED <<job_line, meta_lines, i, item, footer_line, job_code, writer,
                   io, run>>

(***************************************************************************)
(* Split_File.py: parse_groups_and_footer                                  *)
(***************************************************************************)
\* lines 75-76
at_footer(pos) == pos < Len(lines) /\ StartsWith(At(lines, pos), "FOOTER")

\* the loop condition of line 78
ItemCond == i < Len(lines) /\ ~at_footer(i)

\* the loop condition of line 84 without its CLNT_CORR| test
InnerCondNoCorr == i < Len(lines) /\ ~at_footer(i)

\* the loop condition of line 84
InnerCond == i < Len(lines) /\ ~at_footer(i) /\ ~StartsWith(At(lines, i), "CLNT_CORR")

\* line 85: the test that makes a line a role line
IsRole(line) == StartsWith(line, "CLNT_ROLE")

\* any line taken for a plan line
IsPlanAnyLine(line) == TRUE

\* line 87: the test that makes a line a plan line
IsPlan(line) == StartsWith(line, "PLAN")

\* the line number with the index left as it is, 0-based
LineNoZeroBased(pos) == pos

\* lines 80 and 91: {i+1}, the 1-based number of line i in the messages
LineNo(pos) == pos + 1

\* the index left where it is
AdvanceNot(pos) == pos

\* line 94: i += 1
Advance(pos) == pos + 1

\* lines 78-82: an item begins at its CLNT_CORR| line
ItemBegin ==
    /\ pc = "item_loop"
    /\ ItemCond
    /\ IF ~StartsWith(At(lines, i), "CLNT_CORR")
       THEN /\ Raise(Err("ExpectedCorrelation", LineNo(i), At(lines, i), 0, 0))
            /\ UNCHANGED <<i, item>>
       ELSE /\ item_lines' = <<At(lines, i)>>
            /\ i' = i + 1
            /\ role_count' = 0
            /\ plan_count' = 0
            /\ pc' = "inner_loop"
            /\ UNCHANGED err
    /\ UNCHANGED <<job_line, meta_lines, groups, footer_line, job_code, writer,
                   io, run>>

\* lines 84-94: one role or plan line of the item, or an unexpected line
InnerLine ==
    /\ pc = "inner_loop"
    /\ InnerCond
    /\ IF IsRole(At(lines, i))
       THEN /\ role_count' = role_count + 1
            /\ item_lines' = Append(item_lines, At(lines, i))
            /\ i' = Advance(i)
            /\ UNCHANGED <<pc, err, plan_count>>
       ELSE IF IsPlan(At(lines, i))
       THEN /\ plan_count' = plan_count + 1
            /\ item_lines' = Append(item_lines, At(lines, i))
            /\ i' = Advance(i)
            /\ UNCHANGED <<pc, err, role_count>>
       ELSE /\ Raise(Err("UnexpectedLine", LineNo(i), At(lines, i), 0, 0))
            /\ UNCHANGED <<i, item>>
    /\ UNCHANGED <<job_line, meta_lines, groups, footer_line, job_code, writer,
                   io, run>>

\* the test of line 96 with "and" for "or"
IncompleteBoth(roles, plans) == roles = 0 /\ plans = 0

\* line 96: the item is short of a role line or of a plan line
Incomplete(roles, plans) == roles = 0 \/ plans = 0

\* lines 96-101: the item ends at the next CLNT_CORR|, at the footer or at the
\* end of the input
ItemEnd ==
    /\ pc = "inner_loop"
    /\ ~InnerCond
    /\ IF Incomplete(role_count, plan_count)
       THEN /\ Raise(Err("IncompleteItem", 0, item_lines[1], role_count, plan_count))
            /\ UNCHANGED groups
       ELSE /\ groups' = Append(groups, item_lines)
            /\ pc' = "item_loop"
            /\ UNCHANGED err
    /\ UNCHANGED <<job_line, meta_lines, i, item, footer_line, job_code, writer,
                   io, run>>

\* the item loop is over; a footer is taken if there is one, none is required
ItemsDoneFooterOptional ==
    /\ pc = "item_loop"
    /\ ~ItemCond
    /\ footer_line' = IF i >= Len(lines) THEN <<>> ELSE At(lines, i)
    /\ pc' = "extract_job_code"
    /\ UNCHANGED <<err, job_line, meta_lines, i, groups, item, job_code, writer, io, run>>

\* lines 103-108: the item loop is over; the footer is the line it stopped at
ItemsDone ==
    /\ pc = "item_loop"
    /\ ~ItemCond
    /\ IF i >= Len(lines)
       THEN /\ Raise(Err("MissingFooter", 0, <<>>, 0, 0))
            /\ UNCHANGED footer_line
       ELSE IF ~StartsWith(At(lines, i), "FOOTER")
       THEN /\ Raise(Err("LastBlockNotFooter", 0, <<>>, 0, 0))
            /\ footer_line' = At(lines, i)
       ELSE /\ footer_line' = At(lines, i)
            /\ pc' = "extract_job_code"
            /\ UNCHANGED err
    /\ UNCHANGED <<job_line, meta_lines, i, groups, item, job_code, writer, io, run>>

(***************************************************************************)
(* Split_File.py: extract_job_code and validate_footer                     *)
(***************************************************************************)
\* lines 110-114: parts[1] of job_line.split("|")
ExtractJobCode ==
    /\ pc = "extract_job_code"
    /\ IF Len(job_line) < 2
       THEN /\ Raise(Err("MalformedHeader", 1, job_line, 0, 0))
            /\ UNCHANGED job_code
       ELSE /\ job_code' = job_line[2]
            /\ pc' = "validate_footer"
            /\ UNCHANGED err
    /\ UNCHANGED <<job_line, meta_lines, i, groups, item, footer_line, writer, io, run>>

\* validate_footer without the comparison of the two job codes
FooterErrorNoJobCheck(footer, expected_job_code) ==
    IF Len(footer) # 3 \/ ~IsInt(footer[3])
    THEN Err("MalformedFooter", 0, <<>>, 0, 0)
    ELSE NoErr

\* validate_footer with the whole footer line quoted in the job-code error
FooterErrorQuotingLine(footer, expected_job_code) ==
    IF Len(footer) # 3
    THEN Err("MalformedFooter", 0, <<>>, 0, 0)
    ELSE IF footer[2] # expected_job_code
    THEN Err("FooterJobMismatch", 0, footer, 0, 0)
    ELSE IF ~IsInt(footer[3])
    THEN Err("MalformedFooter", 0, <<>>, 0, 0)
    ELSE NoErr

\* lines 117-126: the error validate_footer raises for the footer, NoErr if none
FooterError(footer, expected_job_code) ==
    IF Len(footer) # 3
    THEN Err("MalformedFooter", 0, <<>>, 0, 0)
    ELSE IF footer[2] # expected_job_code
    THEN Err("FooterJobMismatch", 0, <<footer[2], expected_job_code>>, 0, 0)
    ELSE IF ~IsInt(footer[3])
    THEN Err("MalformedFooter", 0, <<>>, 0, 0)
    ELSE NoErr

\* lines 127-128: the warning printed when the declared count is not the actual one
FooterWarnings(footer, expected_total) ==
    IF IntOf(footer[3]) # expected_total
    THEN << <<"FooterCount", IntOf(footer[3]), expected_total>> >>
    ELSE <<>>

\* main line 162: validate_footer(footer_line, job_code, expected_total=len(groups))
ValidateFooter ==
    /\ pc = "validate_footer"
    /\ IF FooterError(footer_line, job_code) # NoErr
       THEN /\ Raise(FooterError(footer_line, job_code))
            /\ UNCHANGED warnings
       ELSE /\ warnings' = warnings \o FooterWarnings(footer_line, Len(groups))
            /\ pc' = "write_batches"
            /\ UNCHANGED err
    /\ UNCHANGED <<job_line, meta_lines, i, groups, item, footer_line, job_code,
                   writer, csvoutput, written, run>>

(***************************************************************************)
(* Split_File.py: write_batches                                            *)
(***************************************************************************)
\* ITEMS_PER_FILE, as configured: any integer
BatchSizes == (0 - 1)..MaxB

\* ITEMS_PER_FILE in this run: in pass 3 what it was in the first run
Configured == IF pass = 3 THEN {before.items_per_file} ELSE BatchSizes

Min(a, b) == IF a < b THEN a ELSE b

\* the slice taken one item short: groups[start:start + items_per_file - 1]
ChunkShort(gs, from, size) == SubSeq(gs, from + 1, Min(from + size, Len(gs)) - 1)

\* line 139: groups[start:start + items_per_file]
Chunk(gs, from, size) == SubSeq(gs, from + 1, Min(from + size, Len(gs)))

\* the footer repeating the count the input footer declared
ChunkFooterDeclared(code, count) == <<"FOOTER", code, footer_line[3]>>

\* line 141: f"FOOTER|{job_code}|{count}"
ChunkFooter(code, count) == <<"FOOTER", code, Str(count)>>

\* the lines of an output file without the metadata lines
FileLinesNoMeta(job, metas, chunk, footer) == <<job>> \o Flatten(chunk) \o <<footer>>

\* lines 144-150: the lines written to one output file
FileLines(job, metas, chunk, footer) == <<job>> \o metas \o Flatten(chunk) \o <<footer>>

\* out_path.open("w"): the file is created, or replaced if it exists
WriteTo(dir, num, content) ==
    [k \in DOMAIN dir \cup {num} |-> IF k = num THEN content ELSE dir[k]]

\* range(0, total) stepping by one item
NextStartByOne(from, size) == from + 1

\* the step of range(0, total, items_per_file)
NextStart(from, size) == from + size

\* range(0, total + 1, items_per_file): one start too many
InRangeInclusive(from, total) == from <= total

\* whether range(0, total, items_per_file), items_per_file > 0, still yields `from`
InRange(from, total) == from < total

\* main line 164 and lines 132-137: the call, the batch size check, file_num = 1
WriteBatches ==
    /\ pc = "write_batches"
    /\ \E B \in Configured :
          /\ items_per_file' = B
          /\ IF B <= 0
             THEN /\ Raise(Err("InvalidBatchSize", 0, <<>>, 0, 0))
                  /\ UNCHANGED <<start, file_num>>
             ELSE /\ start' = 0
                  /\ file_num' = 1
                  /\ pc' = "write_loop"
                  /\ UNCHANGED err
    /\ UNCHANGED <<job_line, meta_lines, i, groups, item, footer_line, job_code,
                   io, run>>

\* lines 138-152: one iteration of the loop, one output file
WriteFile ==
    /\ pc = "write_loop"
    /\ InRange(start, Len(groups))
    /\ LET chunk == Chunk(groups, start, items_per_file)
           footer == ChunkFooter(job_code, Len(chunk))
       IN  csvoutput' = WriteTo(csvoutput, file_num,
                                FileLines(job_line, meta_lines, chunk, footer))
    /\ written' = Append(written, file_num)
    /\ file_num' = file_num + 1
    /\ start' = NextStart(start, items_per_file)
    /\ UNCHANGED <<pc, err, job_line, meta_lines, i, groups, item, footer_line,
                   job_code, items_per_file, warnings, run>>

\* the range is exhausted: write_batches and main return
WriteDone ==
    /\ pc = "write_loop"
    /\ ~InRange(start, Len(groups))
    /\ pc' = "done"
    /\ UNCHANGED <<err, job_line, meta_lines, i, groups, item, footer_line,
                   job_code, writer, io, run>>

(***************************************************************************)
(* A second run of Split_File.py whose input is output file k of the first.*)
(***************************************************************************)
\* main lines 155-158 on file k of OUTPUT_DIR: lines = read_lines(...)
ReadBack ==
    /\ pc = "done"
    /\ pass = 1
    /\ \E k \in DOMAIN csvoutput :
          /\ lines' = csvoutput[k]
          /\ expect' = SubSeq(groups, (k - 1) * items_per_file + 1,
                              Min(k * items_per_file, Len(groups)))
    /\ pass' = 2
    /\ pc' = "parse_header_and_meta"
    /\ job_line' = <<>>
    /\ meta_lines' = <<>>
    /\ i' = 0
    /\ groups' = <<>>
    /\ item_lines' = <<>>
    /\ role_count' = 0
    /\ plan_count' = 0
    /\ footer_line' = <<>>
    /\ job_code' = ""
    /\ items_per_file' = 0
    /\ start' = 0
    /\ file_num' = 0
    /\ written' = <<>>
    /\ warnings' = <<>>
    /\ UNCHANGED <<doc, csvoutput, err, before>>

Next ==
    \/ ParseHeader
    \/ MetaLoop
    \/ MetaDone
    \/ ItemBegin
    \/ InnerLine
    \/ ItemEnd
    \/ ItemsDone
    \/ ExtractJobCode
    \/ ValidateFooter
    \/ WriteBatches
    \/ WriteFile
    \/ WriteDone
    \/ ReadBack

Spec == Init /\ [][Next]_vars

(***************************************************************************)
(* A second run of Split_File.py on the same input but for the integer in  *)
(* the count field of its footer, with the same ITEMS_PER_FILE and an      *)
(* empty OUTPUT_DIR.                                                       *)
(***************************************************************************)
\* the first FOOTER| line of the input (1-based)
FirstFooter == CHOOSE f \in Tagged(lines, "FOOTER") : \A g \in Tagged(lines, "FOOTER") : f <= g

\* the input with count field c in line f
WithCount(ls, f, c) == [ls EXCEPT ![f] = [@ EXCEPT ![3] = c]]

\* main lines 155-158 on the other input: lines = read_lines(...)
RunAgain ==
    /\ pc \in {"done", "failed"}
    /\ pass = 1
    /\ Tagged(lines, "FOOTER") # {}
    /\ Len(lines[FirstFooter]) >= 3
    /\ IsInt(lines[FirstFooter][3])
    /\ \E n \in 0..MaxCount :
          /\ n # IntOf(lines[FirstFooter][3])
          /\ lines' = WithCount(lines, FirstFooter, Str(n))
    /\ before' = Outcome
    /\ pass' = 3
    /\ pc' = "parse_header_and_meta"
    /\ job_line' = <<>>
    /\ meta_lines' = <<>>
    /\ i' = 0
    /\ groups' = <<>>
    /\ item_lines' = <<>>
    /\ role_count' = 0
    /\ plan_count' = 0
    /\ footer_line' = <<>>
    /\ job_code' = ""
    /\ items_per_file' = 0
    /\ start' = 0
    /\ file_num' = 0
    /\ csvoutput' = <<>>
    /\ written' = <<>>
    /\ err' = NoErr
    /\ warnings' = <<>>
    /\ UNCHANGED <<doc, expect>>

NextTwice == Next \/ RunAgain

SpecTwice == Init /\ [][NextTwice]_vars

(***************************************************************************)
(* split_xpnfile.py: the sibling program.  An index at or past the end of  *)
(* the list raises IndexError.                                             *)
(***************************************************************************)
IndexError(pos) == Err("IndexError", pos + 1, <<>>, 0, 0)

\* lines 51-56: job_line = lines[0], the JOB| check, meta_lines = [], idx = 1
XParseHeader ==
    /\ pc = "parse_header_and_meta"
    /\ IF Len(lines) = 0
       THEN /\ Raise(IndexError(0))
            /\ UNCHANGED <<job_line, meta_lines, i>>
       ELSE IF ~StartsWith(At(lines, 0), "JOB")
       THEN /\ Raise(Err("MalformedHeader", 1, <<>>, 0, 0))
            /\ job_line' = At(lines, 0)
            /\ UNCHANGED <<meta_lines, i>>
       ELSE /\ job_line' = At(lines, 0)
            /\ meta_lines' = <<>>
            /\ i' = 1
            /\ pc' = "meta_loop"
            /\ UNCHANGED err
    /\ UNCHANGED <<groups, item, footer_line, job_code, writer, io, run>>

\* lines 57-59: one iteration of the metadata loop
XMetaLoop ==
    /\ pc = "meta_loop"
    /\ i < Len(lines) /\ IsMeta(At(lines, i))
    /\ meta_lines' = Append(meta_lines, At(lines, i))
    /\ i' = i + 1
    /\ UNCHANGED <<pc, err, job_line, groups, item, footer_line, job_code, writer,
                   io, run>>

\* line 61, then main line 121 and lines 64-66: no check of meta_lines
XMetaDone ==
    /\ pc = "meta_loop"
    /\ ~(i < Len(lines) /\ IsMeta(At(lines, i)))
    /\ pc' = "item_loop"
    /\ groups' = <<>>
    /\ UNCHANGED <<err, job_line, meta_lines, i, item, footer_line, job_code, writer,
                   io, run>>

\* lines 71-81: the exception one iteration of the item loop raises at index pos,
\* NoErr if it raises none
XItemError(ls, pos) ==
    IF ~StartsWith(At(ls, pos), "CLNT_CORR")
    THEN Err("ExpectedCorrelation", pos + 1, <<>>, 0, 0)
    ELSE IF pos + 1 >= Len(ls)
    THEN IndexError(pos + 1)
    ELSE IF ~StartsWith(At(ls, pos + 1), "CLNT_ROLE")
    THEN Err("ExpectedRole", pos + 2, <<>>, 0, 0)
    ELSE IF pos + 2 >= Len(ls)
    THEN IndexError(pos + 2)
    ELSE IF ~StartsWith(At(ls, pos + 2), "PLAN")
    THEN Err("ExpectedPlan", pos + 3, <<>>, 0, 0)
    ELSE NoErr

\* lines 70-83: one iteration of the item loop: corr, role, plan
XItem ==
    /\ pc = "item_loop"
    /\ i < Len(lines) /\ ~at_footer(i)
    /\ IF XItemError(lines, i) # NoErr
       THEN /\ Raise(XItemError(lines, i))
            /\ UNCHANGED <<i, groups>>
       ELSE /\ groups' = Append(groups, <<At(lines, i), At(lines, i + 1), At(lines, i + 2)>>)
            /\ i' = i + 3
            /\ UNCHANGED <<pc, err>>
    /\ UNCHANGED <<job_line, meta_lines, item, footer_line, job_code, writer, io, run>>

\* lines 85-88: the footer is the line the loop stopped at
XItemsDone ==
    /\ pc = "item_loop"
    /\ ~(i < Len(lines) /\ ~at_footer(i))
    /\ IF i >= Len(lines)
       THEN /\ Raise(Err("MissingFooter", 0, <<>>, 0, 0))
            /\ UNCHANGED footer_line
       ELSE /\ footer_line' = At(lines, i)
            /\ pc' = "extract_job_code"
            /\ UNCHANGED err
    /\ UNCHANGED <<job_line, meta_lines, i, groups, item, job_code, writer, io, run>>

\* lines 90-91 and main line 122: job_line.split("|")[1]; main never looks at
\* the footer, so write_batches is next
XExtractJobCode ==
    /\ pc = "extract_job_code"
    /\ IF Len(job_line) < 2
       THEN /\ Raise(IndexError(1))
            /\ UNCHANGED job_code
       ELSE /\ job_code' = job_line[2]
            /\ pc' = "write_batches"
            /\ UNCHANGED err
    /\ UNCHANGED <<job_line, meta_lines, i, groups, item, footer_line, writer, io, run>>

\* main line 125 and lines 94-98: the call; range() raises on a step of 0
XWriteBatches ==
    /\ pc = "write_batches"
    /\ \E B \in BatchSizes :
          /\ items_per_file' = B
          /\ IF B = 0
             THEN /\ Raise(Err("RangeStepZero", 0, <<>>, 0, 0))
                  /\ UNCHANGED <<start, file_num>>
             ELSE /\ start' = 0
                  /\ file_num' = 1
                  /\ pc' = "write_loop"
                  /\ UNCHANGED err
    /\ UNCHANGED <<job_line, meta_lines, i, groups, item, footer_line, job_code,
                   io, run>>

\* whether range(0, total, step) still yields `from`
XInRange(from, total, step) == step > 0 /\ from < total

\* lines 98-112: one iteration of the loop, one output file
XWriteFile ==
    /\ pc = "write_loop"
    /\ XInRange(start, Len(groups), items_per_file)
    /\ LET chunk == Chunk(groups, start, items_per_file)
           footer == ChunkFooter(job_code, Len(chunk))
       IN  csvoutput' = WriteTo(csvoutput, file_num,
                                FileLines(job_line, meta_lines, chunk, footer))
    /\ written' = Append(written, file_num)
    /\ file_num' = file_num + 1
    /\ start' = start + items_per_file
    /\ UNCHANGED <<pc, err, job_line, meta_lines, i, groups, item, footer_line,
                   job_code, items_per_file, warnings, run>>

\* the range is exhausted: write_batches and main return
XWriteDone ==
    /\ pc = "write_loop"
    /\ ~XInRange(start, Len(groups), items_per_file)
    /\ pc' = "done"
    /\ UNCHANGED <<err, job_line, meta_lines, i, groups, item, footer_line,
                   job_code, writer, io, run>>

NextXpn ==
    \/ XParseHeader
    \/ XMetaLoop
    \/ XMetaDone
    \/ XItem
    \/ XItemsDone
    \/ XExtractJobCode
    \/ XWriteBatches
    \/ XWriteFile
    \/ XWriteDone

SpecXpn == Init /\ [][NextXpn]_vars

(***************************************************************************)
(* What the claims speak of.                                               *)
(***************************************************************************)
\* the number of items in an output file: one per CLNT_CORR| line
ItemsIn(file) == Cardinality(Tagged(file, "CLNT_CORR"))

\* the item lines of an output file: all but the header, the metadata and the footer
Body(file) == SubSeq(file, Len(meta_lines) + 2, Len(file) - 1)

\* the item lines of the files of this run, in the order of their numbers
RECURSIVE Bodies(_)
Bodies(n) == IF n = 0 THEN <<>> ELSE Bodies(n - 1) \o Body(csvoutput[n])

\* ceil(t / b), b >= 1
CeilDiv(t, b) == (t + b - 1) \div b

\* C1: when write_batches has returned, the item lines of output files 1..N,
\* concatenated in file-number order, are the lines of groups, in order: no item
\* lost, duplicated or reordered, for any number of items and any batch size >= 1.
C1_ConcatenationIsGroups ==
    pc = "done" =>
        /\ written = [k \in 1..Len(written) |-> k]
        /\ Bodies(Len(written)) = Flatten(groups)

C1_Witness ==
    /\ pc = "done" /\ pass = 1
    /\ Len(groups) = 3 /\ items_per_file = 2 /\ Len(written) = 2

\* C2: every output file ends with FOOTER|<job_code>|<c>, job_code the header's
\* job code and c the number of items of that same file, whatever the input
\* footer declared.
C2_FooterCountsOwnItems ==
    \A k \in 1..Len(written) :
        LET file == csvoutput[written[k]]
        IN  /\ file[1] = job_line
            /\ file[Len(file)] = <<"FOOTER", job_line[2], Str(ItemsIn(file))>>

C2_Witness ==
    /\ pc = "done" /\ pass = 1
    /\ warnings # <<>>
    /\ Len(written) = 2 /\ ItemsIn(csvoutput[1]) = 2 /\ ItemsIn(csvoutput[2]) = 1

\* C3 as claimed: a batch size above the number of items, zero items included,
\* gives exactly one output file, holding all the items.
C3_OneFileAlsoForNoItems ==
    pc = "done" /\ items_per_file > Len(groups) =>
        /\ written = <<1>>
        /\ Body(csvoutput[1]) = Flatten(groups)

\* C3, amended: a batch size above the number of items gives exactly one output
\* file, holding all the items, when there is at least one item.
C3_OneFileWhenBatchExceedsItems ==
    pc = "done" /\ items_per_file > Len(groups) /\ Len(groups) >= 1 =>
        /\ written = <<1>>
        /\ Body(csvoutput[1]) = Flatten(groups)

C3_Witness ==
    /\ pc = "done" /\ pass = 1
    /\ Len(groups) = 2 /\ items_per_file = 3 /\ written = <<1>>

\* C4: write_batches writes exactly ceil(T/B) files, numbered 1..ceil(T/B);
\* each but the last holds B items, the last T mod B items if that is not zero
\* and B otherwise; so no file holds zero items.
C4_FileCountAndSizes ==
    pc = "done" =>
        LET T == Len(groups)
            B == items_per_file
            N == CeilDiv(T, B)
        IN  /\ written = [k \in 1..N |-> k]
            /\ \A k \in 1..N :
                  ItemsIn(csvoutput[k]) = IF k < N \/ T % B = 0 THEN B ELSE T % B

C4_Witness ==
    /\ pc = "done" /\ pass = 1
    /\ Len(groups) = 3 /\ items_per_file = 2
    /\ ItemsIn(csvoutput[1]) = 2 /\ ItemsIn(csvoutput[2]) = 1

\* the states in which parse_groups_and_footer has returned its result
AfterParse == {"extract_job_code", "validate_footer", "write_batches", "write_loop", "done"}

\* the states in which validate_footer has returned
AfterValidate == {"write_batches", "write_loop", "done"}

\* the states in which the parsers have just returned or the run has failed;
\* every later state of a run follows one of these, on the same input
ParseEnded == {"extract_job_code", "failed"}

\* the states in which the parsers are still running
Parsing == {"parse_header_and_meta", "meta_loop", "item_loop", "inner_loop"}

\* the failures of reading, parsing and footer validation
ParseFailures ==
    {"EmptyInput", "MalformedHeader", "MissingMetadata", "ExpectedCorrelation",
     "UnexpectedLine", "IncompleteItem", "MissingFooter", "LastBlockNotFooter",
     "MalformedFooter", "FooterJobMismatch"}

\* a well-formed item, read off its lines
WellFormedItem(it) ==
    /\ Len(it) >= 1
    /\ StartsWith(it[1], "CLNT_CORR")
    /\ \A j \in 2..Len(it) : StartsWith(it[j], "CLNT_ROLE") \/ StartsWith(it[j], "PLAN")
    /\ \E j \in 2..Len(it) : StartsWith(it[j], "CLNT_ROLE")
    /\ \E j \in 2..Len(it) : StartsWith(it[j], "PLAN")

\* the whole input is a header, metadata, the items of groups and a footer that
\* names the header's job and an integer, read off the input lines themselves
WholeInputValid ==
    /\ lines # <<>>
    /\ StartsWith(lines[1], "JOB")
    /\ job_line = lines[1]
    /\ meta_lines # <<>>
    /\ \A g \in 1..Len(groups) : WellFormedItem(groups[g])
    /\ \E f \in Tagged(lines, "FOOTER") :
          /\ SubSeq(lines, 1, f - 1) = <<job_line>> \o meta_lines \o Flatten(groups)
          /\ footer_line = lines[f]
          /\ Len(lines[f]) = 3
          /\ lines[f][2] = lines[1][2]
          /\ IsInt(lines[f][3])

\* C5: when reading, parsing or footer validation has failed, no output file has
\* been created or modified; a file is written only once the whole input has
\* been parsed and its footer validated.
C5_NoOutputUnlessInputValid ==
    /\ err.kind \in ParseFailures => written = <<>> /\ (pass = 1 => csvoutput = <<>>)
    /\ written # <<>> \/ (pass = 1 /\ csvoutput # <<>>) => WholeInputValid

C5_Witness ==
    /\ pc = "failed" /\ err.kind = "FooterJobMismatch"
    /\ Len(groups) = 3 /\ written = <<>> /\ csvoutput = <<>>

\* C6 as claimed: the parser accepts an input only if its one FOOTER| line is its
\* last line.
C6_AcceptedOnlyIfFooterIsLast ==
    pc = "extract_job_code" => Tagged(lines, "FOOTER") = {Len(lines)}

\* a valid document: header, at least one metadata line, well-formed items and
\* the footer FOOTER|<job_code>|<number of items>
ValidDocument(d) ==
    /\ Len(d.head) = 1
    /\ StartsWith(d.head[1], "JOB")
    /\ Len(d.meta) >= 1
    /\ \A m \in 1..Len(d.meta) : IsMeta(d.meta[m])
    /\ \A k \in 1..Len(d.items) : WellFormedItem(d.items[k])
    /\ d.tail = << <<"FOOTER", d.head[1][2], Str(Len(d.items))>> >>

\* C7: on the flat lines of a valid document the two parsers raise nothing and
\* return its header, its metadata lines and its items, in content and order.
C7_RoundTrip ==
    ValidDocument(doc) /\ pass = 1 =>
        /\ err.kind \notin ParseFailures
        /\ pc \in AfterParse =>
              /\ job_line = doc.head[1]
              /\ meta_lines = doc.meta
              /\ groups = doc.items
              /\ footer_line = doc.tail[1]

C7_Witness ==
    /\ ValidDocument(doc) /\ pass = 1
    /\ pc = "extract_job_code"
    /\ Len(doc.items) = 3 /\ groups = doc.items
    /\ \E k \in 1..3 : StartsWith(doc.items[k][2], "PLAN")
    /\ \E k \in 1..3 : Len(doc.items[k]) = 4

\* C8: an output file read back as input parses and validates without raising,
\* yields exactly the items of its chunk, and its declared count is the actual
\* one (no warning).
C8_OutputIsValidInput ==
    pass = 2 =>
        /\ err.kind \notin ParseFailures
        /\ pc \in AfterParse => groups = expect
        /\ pc \in AfterValidate =>
              /\ warnings = <<>>
              /\ IntOf(footer_line[3]) = Len(expect)

C8_Witness ==
    /\ pass = 2 /\ pc = "write_batches"
    /\ Len(expect) = 2 /\ groups = expect /\ Len(csvoutput) = 2

\* C9: the item that opens at the CLNT_CORR| line at 0-based position c, read off
\* the input lines
SpanEnd(c) ==
    CHOOSE e \in (c + 1)..Len(lines) :
        /\ e = Len(lines) \/ StartsWith(At(lines, e), "CLNT_CORR")
                          \/ StartsWith(At(lines, e), "FOOTER")
        /\ \A x \in (c + 1)..(e - 1) :
              ~StartsWith(At(lines, x), "CLNT_CORR") /\ ~StartsWith(At(lines, x), "FOOTER")

Span(c) == (c + 1)..(SpanEnd(c) - 1)

RolesIn(c) == Cardinality({x \in Span(c) : StartsWith(At(lines, x), "CLNT_ROLE")})

PlansIn(c) == Cardinality({x \in Span(c) : StartsWith(At(lines, x), "PLAN")})

SpanClean(c) ==
    \A x \in Span(c) :
        StartsWith(At(lines, x), "CLNT_ROLE") \/ StartsWith(At(lines, x), "PLAN")

\* the position after the header and the metadata lines
MetaEnd ==
    CHOOSE m \in 1..Len(lines) :
        /\ m = Len(lines) \/ ~IsMeta(At(lines, m))
        /\ \A x \in 1..(m - 1) : IsMeta(At(lines, x))

\* header and metadata are valid, an item opens at c, and the lines before it
\* are complete items
ItemAfterCompleteItems(c) ==
    /\ StartsWith(At(lines, 0), "JOB")
    /\ MetaEnd > 1
    /\ c >= MetaEnd
    /\ StartsWith(At(lines, c), "CLNT_CORR")
    /\ StartsWith(At(lines, MetaEnd), "CLNT_CORR")
    /\ \A q \in MetaEnd..(c - 1) :
          StartsWith(At(lines, q), "CLNT_CORR") => SpanClean(q) /\ RolesIn(q) >= 1 /\ PlansIn(q) >= 1

ShortItemAt(c) == ItemAfterCompleteItems(c) /\ (RolesIn(c) = 0 \/ PlansIn(c) = 0)

IncompleteItemRaised(c) ==
    /\ pc = "failed"
    /\ err = Err("IncompleteItem", 0, At(lines, c), RolesIn(c), PlansIn(c))

\* no line of the item is a CLNT_ROL| line
NoRolLine(c) == \A x \in Span(c) : ~StartsWith(At(lines, x), "CLNT_ROL")

\* C9 as claimed: an item with no CLNT_ROLE| line or no PLAN| line before the next
\* CLNT_CORR|, the FOOTER| or the end of input fails with the incomplete-item
\* error.  (Stated for the items without a CLNT_ROL| line, whose acceptance as a
\* role line is another matter.)
C9_ShortItemIsIncomplete ==
    pc \notin Parsing =>
        \A c \in 1..(Len(lines) - 1) :
            ShortItemAt(c) /\ NoRolLine(c) => IncompleteItemRaised(c)

\* C9, amended: such an item, all of whose lines after the CLNT_CORR| line are
\* CLNT_ROLE| or PLAN| lines, fails with the incomplete-item error, which cites
\* the item's CLNT_CORR| line and the role and plan counts; nothing is returned.
C9_CleanShortItemIsIncomplete ==
    pc \in ParseEnded =>
        \A c \in 1..(Len(lines) - 1) :
            ShortItemAt(c) /\ SpanClean(c) => IncompleteItemRaised(c)

C9_Witness ==
    \E c \in 1..(Len(lines) - 1) :
        /\ ShortItemAt(c) /\ SpanClean(c)
        /\ IncompleteItemRaised(c)
        /\ Len(groups) = 1 /\ RolesIn(c) = 0 /\ PlansIn(c) = 1

\* the footer's job code field is not the header's, in an input with a header
\* and metadata
FooterJobDiffers ==
    /\ Len(lines) >= 2
    /\ StartsWith(lines[1], "JOB")
    /\ IsMeta(lines[2])
    /\ Tagged(lines, "FOOTER") # {}
    /\ \A f \in Tagged(lines, "FOOTER") : lines[f][2] # lines[1][2]

\* C10 as claimed: for an input whose footer job code differs from the header's
\* the run fails before write_batches, so no output file is written.
C10_JobMismatchWritesNothing ==
    FooterJobDiffers => written = <<>>



(***************************************************************************)
(* C11: the declared footer count never changes the outcome.               *)
(***************************************************************************)
\* a run has ended
Ended == pc \in {"done", "failed"}

\* C11: when Split_File.py has run on an input and then, with the same
\* ITEMS_PER_FILE and an empty output directory, on the input that differs
\* only in the integer of its footer's count field, the second run ends as
\* the first did: both failed with the same error, or both succeeded having
\* written the same files with the same content.
C11_FooterCountNeverChangesOutcome ==
    (pass = 3 /\ Ended) =>
        /\ pc = before.pc
        /\ err = before.err
        /\ written = before.written
        /\ csvoutput = before.csvoutput

\* both runs wrote two files, and one of them printed the count warning
C11_Witness ==
    /\ pass = 3
    /\ pc = "done"
    /\ Len(written) = 2
    /\ before.written = written
    /\ warnings # <<>>

(***************************************************************************)
(* C12: CLNT_ROL| as a role tag.                                           *)
(***************************************************************************)
\* C12 as claimed: inside an item a CLNT_ROL| line is taken as a role line,
\* so parse_groups_and_footer never rejects one as an unexpected line.
C12_RolLineIsRoleLine ==
    (pc = "failed" /\ err.kind = "UnexpectedLine") =>
        ~StartsWith(err.content, "CLNT_ROL")

(***************************************************************************)
(* C13: a batch size that is not positive.                                 *)
(***************************************************************************)
\* the errors raised inside the two write_batches
WriteBatchesFailures == {"InvalidBatchSize", "RangeStepZero"}

\* C13 as claimed: write_batches called on the items of a valid input with
\* B <= 0 fails with the invalid-batch-size error and writes no file: it never
\* enters its loop or returns with such a B, and it fails with no other error.
C13_NonPositiveBatchIsInvalid ==
    (WholeInputValid /\ Len(groups) >= 1) =>
        /\ pc \in {"write_loop", "done"} => items_per_file > 0
        /\ items_per_file < 0 =>
              pc = "failed" /\ err.kind = "InvalidBatchSize" /\ written = <<>>
        /\ err.kind \in WriteBatchesFailures =>
              err.kind = "InvalidBatchSize" /\ written = <<>>

(***************************************************************************)
(* C14: metadata is required.                                              *)
(***************************************************************************)
\* the input has a JOB| header that no META_ line follows
HeaderWithoutMeta ==
    /\ lines # <<>>
    /\ StartsWith(lines[1], "JOB")
    /\ Len(lines) = 1 \/ ~IsMeta(lines[2])

\* C14: on an input whose JOB| header line is not followed at once by a META_
\* line, Split_File.py never leaves parse_header_and_meta but by the
\* missing-metadata error: no item is begun or parsed and no file is written.
C14_MissingMetadataRejected ==
    HeaderWithoutMeta =>
        /\ pc \in {"parse_header_and_meta", "meta_loop", "failed"}
        /\ pc = "failed" => err.kind = "MissingMetadata"
        /\ err.kind \in {"none", "MissingMetadata"}
        /\ i <= 1
        /\ groups = <<>>
        /\ item_lines = <<>>
        /\ written = <<>>
        /\ csvoutput = <<>>

\* rejected although well-formed items and a footer follow the header
C14_Witness ==
    /\ HeaderWithoutMeta
    /\ pc = "failed"
    /\ err.kind = "MissingMetadata"
    /\ Len(lines) >= 5
    /\ WellFormedItem(SubSeq(lines, 2, 4))

(***************************************************************************)
(* C15: what parse_groups_and_footer returns.                              *)
(***************************************************************************)
\* C15: once parse_groups_and_footer has returned (groups, footer_line), every
\* item of groups begins with a CLNT_CORR| line, continues with CLNT_ROLE| and
\* PLAN| lines only and has at least one of each; the items' lines in order are
\* the input lines from start_idx, the line after the metadata, up to the
\* line before the returned footer line, and that line is a FOOTER| line.
C15_ReturnedItemsTileTheInput ==
    (pc \in AfterParse) =>
        /\ \A g \in 1..Len(groups) : WellFormedItem(groups[g])
        /\ i < Len(lines)
        /\ Flatten(groups) = SubSeq(lines, Len(meta_lines) + 2, i)
        /\ footer_line = At(lines, i)
        /\ StartsWith(footer_line, "FOOTER")

\* returned with two items, the first of four lines, and lines after the footer
C15_Witness ==
    /\ pc = "extract_job_code"
    /\ pass = 1
    /\ Len(groups) = 2
    /\ Len(groups[1]) = 4
    /\ i + 1 < Len(lines)

(***************************************************************************)
(* C16: an input without footer.                                           *)
(***************************************************************************)
\* a JOB| header, at least one META_ line and no FOOTER| line anywhere
NoFooterInput ==
    /\ Len(lines) >= 2
    /\ StartsWith(lines[1], "JOB")
    /\ IsMeta(lines[2])
    /\ Tagged(lines, "FOOTER") = {}

\* the lines after the metadata, if any, are complete items up to the end
CompleteItemsToEnd ==
    \/ MetaEnd = Len(lines)
    \/ /\ StartsWith(At(lines, MetaEnd), "CLNT_CORR")
       /\ \A q \in MetaEnd..(Len(lines) - 1) :
             StartsWith(At(lines, q), "CLNT_CORR") =>
                 SpanClean(q) /\ RolesIn(q) >= 1 /\ PlansIn(q) >= 1

\* C16 as claimed: an input with a valid header, metadata and no FOOTER| line
\* fails with the missing-footer error, whatever its other lines are.  (Stated
\* for the inputs without a CLNT_ROL| line, whose acceptance as a role line is
\* another matter.)
C16_NoFooterIsMissingFooter ==
    (NoFooterInput /\ Tagged(lines, "CLNT_ROL") = {} /\ pc \notin Parsing) =>
        pc = "failed" /\ err.kind = "MissingFooter"

\* C16, amended: such an input whose lines after the metadata are complete
\* items up to the end of input (or that ends with the metadata) fails with the
\* missing-footer error, once all these items have been parsed.
C16_NoFooterAfterCompleteItems ==
    (pc \in ParseEnded /\ NoFooterInput /\ CompleteItemsToEnd) =>
        /\ pc = "failed"
        /\ err = Err("MissingFooter", 0, <<>>, 0, 0)
        /\ i = Len(lines)
        /\ Flatten(groups) = SubSeq(lines, Len(meta_lines) + 2, Len(lines))

\* two complete items, then the end of input
C16_Witness ==
    /\ NoFooterInput
    /\ CompleteItemsToEnd
    /\ pc = "failed"
    /\ err.kind = "MissingFooter"
    /\ Len(groups) = 2

(***************************************************************************)
(* C17: an unexpected line inside an item.                                 *)
(***************************************************************************)
\* the first line of the item opened at c that is neither a role nor a plan line
FirstStray(c) ==
    CHOOSE x \in Span(c) :
        /\ ~(IsRole(At(lines, x)) \/ IsPlan(At(lines, x)))
        /\ \A y \in Span(c) : y < x => IsRole(At(lines, y)) \/ IsPlan(At(lines, y))

C18_NoOutOfRangeAccess ==
    err.kind # "IndexError"

(***************************************************************************)
(* C19: the parsers terminate.                                             *)
(***************************************************************************)
\* where the parsers stand inside an iteration: 0 once they have returned or
\* raised, 1 between two items, 2 before or inside a loop body
Rank ==
    IF pc \notin Parsing THEN 0 ELSE IF pc = "item_loop" THEN 1 ELSE 2

\* what is left to do: the lines not yet scanned, then the rest of the iteration
Measure == 2 * (Len(lines) - i) + Rank

\* the parsers are within bounds, not stuck, and failed exactly when an error
\* has been raised
ParserSafe ==
    /\ i <= Len(lines)
    /\ Measure >= 0
    /\ pc = "failed" <=> err # NoErr
    /\ pc \in Parsing => ENABLED Next

\* a step of the parsers brings them nearer to their end
ParserStep ==
    pc \in Parsing =>
        /\ Measure' < Measure
        /\ lines' = lines
        /\ pc' \in {"meta_loop", "inner_loop"} => i' > i
        /\ pc' = "item_loop" => i' = i
        /\ pc' = "failed" => i' = i /\ err' # NoErr

\* C19: on every finite line sequence Split_File.py's parsers terminate.  The
\* scan index never exceeds the number of lines; every step of the parsers
\* makes the measure above smaller, a step into the metadata loop or into the
\* inner role/plan loop (an iteration of a loop) makes the index greater and
\* the step that closes an item leaves it as it is; the parsers are never
\* stuck; and a run has failed exactly when one error has been raised.
C19_ParserTerminates ==
    []ParserSafe /\ [][ParserStep]_vars

\* the scan went through three items up to the end of an input without footer
C19_Witness ==
    /\ pc = "failed"
    /\ err.kind = "MissingFooter"
    /\ i = Len(lines)
    /\ Len(groups) = 3
    /\ Measure = 0

====
